---------------------------- MODULE Spec2Model ----------------------------
(***************************************************************************)
(* Model of engine.cpp: a registry of per-ticker order books filled by     *)
(* addOrder and crossed by matchOrdersForTicker.                           *)
(*                                                                         *)
(* Threads advance one shared-memory access at a time.  The registry is    *)
(* the global array `tickers`; a slot of a book holds a null pointer or    *)
(* the Order it points to.                                                 *)
(***************************************************************************)
EXTENDS Integers, Sequences, FiniteSets, TLC

(* ------------------------------ bounds -------------------------------- *)

\* engine.cpp:11 sets 1024; the model keeps the layout and scales the size.
MAX_ORDERS_PER_SIDE == 2

\* engine.cpp:12 sets 1024; scaled.
NUM_TICKERS == 2

\* addOrder calls made in one run
MaxCalls == 4

\* addOrder calls made in one run whose threads interleave freely
RaceCalls == 3

\* trades reported in one run (a pass over a wrapped quantity never ends).
MaxTrades == 3

\* largest quantity a submitted order carries.
MaxQty == 2

\* addOrder calls made in the runs with two matching threads
PairCalls == 2

(* --------------------------- program constants ------------------------ *)

\* the largest int (the side counters are atomic<int>)
IntMax == 2147483647

\* engine.cpp:107 and engine.cpp:108, the scan's initial best prices
HighestBuyInit == -1
LowestSellInit == 1000000000

(* ------------------------------ domains -------------------------------- *)

Tickers == 0 .. (NUM_TICKERS - 1)

\* tickerSymbol values handed to addOrder: every ticker and one past the end
TickerSymbols == 0 .. NUM_TICKERS

\* the first ticker and the first index past the end
FirstAndPastEnd == {0, NUM_TICKERS}

SlotIdx == 0 .. (MAX_ORDERS_PER_SIDE - 1)

\* quantities a submitted order carries
Qtys == 1 .. MaxQty

\* prices a submitted order carries: the buy scan's initial best (-1) and
\* two ordinary prices
Prices == {HighestBuyInit, 1, 2}

\* what the memory `new` returns may hold where quantity and price will
\* be: zeroes, or a quantity and a price left there
RawImages == {<<0, 0>>, <<MaxQty, 2>>}

\* threads that may run addOrder; main starts one (engine.cpp:195), the
\* second stands for a further concurrent caller of addOrder
Submitters == {1, 2}

\* threads that may run matchOrder; main starts one (engine.cpp:196), the
\* second stands for a further thread calling matchOrder at the same time
Matchers == {1, 2}

(* ------------------------- fixed-width integers ------------------------ *)

\* A uint32_t v is written as its two's-complement reading: v itself below
\* 2^31, v - 2^32 from there on (so -1 is 4294967295).  Sums and differences
\* of such readings are the readings of the sums and differences modulo
\* 2^32 as long as they stay inside the 32-bit range, and TLC's
\* own integers fail loudly outside it.
U32Add(a, b) == a + b

U32Sub(a, b) == a - b

\* a < b as uint32_t
U32Less(a, b) == IF (a >= 0) = (b >= 0) THEN a < b ELSE a >= 0

\* a uint64_t is its two uint32_t halves
U64(hi, lo) == [hi |-> hi, lo |-> lo]

\* fetch_add(1) on a uint64_t: the value stored back
U64Inc(x) == IF x.lo = -1 THEN U64(U32Add(x.hi, 1), 0) ELSE U64(x.hi, U32Add(x.lo, 1))

\* a uint64_t passed as a uint32_t
U64ToU32(x) == x.lo

\* a uint32_t stored into a uint64_t
U32ToU64(v) == U64(0, v)

U64Less(x, y) == IF x.hi = y.hi THEN U32Less(x.lo, y.lo) ELSE U32Less(x.hi, y.hi)

\* globalTimestamp when the run starts: 0 after construction, and 2^32 - 1,
\* the state 2^32 - 1 addOrder calls with tickerSymbol >= NUM_TICKERS leave
\* (each draws a timestamp and returns, engine.cpp:72-76).
StartTimestamps == {U64(0, 0), U64(0, -1)}

TimestampZero == U64(0, 0)

VARIABLES
    globalTimestamp,   \* atomic<uint64_t> globalTimestamp
    tickers,           \* TickerOrderBook tickers[NUM_TICKERS]
    sub,               \* each thread running addOrder: position and locals
    mt,                \* each thread running matchOrder: position and locals
    crashed,           \* the process died on an invalid memory access
    calls,             \* addOrder calls made so far
    trades,            \* the lines written to cout by matchOrdersForTicker
    quiet,             \* per matcher: no addOrder step touched its book
                       \* since the pass's last snapshot began
    limit,             \* addOrder calls this run makes
    sched,             \* "free": threads interleave at every access;
                       \* "serial": calls and passes never overlap;
                       \* "matchers": passes overlap each other only
    symbols            \* the tickerSymbol values this run hands to addOrder

vars == <<globalTimestamp, tickers, sub, mt, crashed, calls, trades, quiet,
          limit, sched, symbols>>

(* ------------------------------- Order --------------------------------- *)

\* a null slot: the pointer TickerOrderBook() stores (fields are padding)
NullOrder ==
    [ptr |-> FALSE, built |-> FALSE, isBuy |-> FALSE, tickerIndex |-> 0,
     quantity |-> 0, price |-> 0, timestamp |-> U64(0, 0), call |-> 0]

\* the constructor's `time` parameter: addOrder passes its uint64_t
\* timestamp to a uint32_t (engine.cpp:27), stored into a uint64_t field
TimeParam(timestamp) == U32ToU64(U64ToU32(timestamp))

\* Order::Order(bool, uint32_t, uint32_t, double, uint32_t time), called
\* with addOrder's uint64_t timestamp.  `call` is not a field of the
\* program: it records which addOrder call built the order.
OrderCtor(type, index, quant, p, timestamp, call) ==
    [ptr |-> TRUE, built |-> TRUE, isBuy |-> type, tickerIndex |-> index,
     quantity |-> quant, price |-> p, timestamp |-> TimeParam(timestamp),
     call |-> call]

\* memory returned by `new` whose pointer is visible before the
\* constructor's stores are: quantity and price hold whatever was there.
\* (isBuy, tickerIndex and timestamp are never read by any thread.)
RawOrder(garbageQty, garbagePrice) ==
    [ptr |-> TRUE, built |-> FALSE, isBuy |-> FALSE, tickerIndex |-> 0,
     quantity |-> garbageQty, price |-> garbagePrice, timestamp |-> U64(0, 0),
     call |-> 0]

\* TickerOrderBook::TickerOrderBook()
TickerOrderBookCtor ==
    [buyOrders |-> [i \in SlotIdx |-> NullOrder],
     sellOrders |-> [i \in SlotIdx |-> NullOrder],
     buyCount |-> 0, sellCount |-> 0]

Counter(isBuy) == IF isBuy THEN "buyCount" ELSE "sellCount"

(* ----------------------------- scheduling ------------------------------ *)

\* a thread inside an addOrder call, or inside a matchOrdersForTicker pass
SubBusy(p) == sub[p].pc \notin {"idle", "off"}

MatchBusy(k) == mt[k].pc \notin {"start", "returned", "off"}

SubAlone(p) ==
    /\ \A q \in Submitters \ {p} : ~SubBusy(q)
    /\ \A k \in Matchers : ~MatchBusy(k)

MatchAlone(k) ==
    /\ \A p \in Submitters : ~SubBusy(p)
    /\ \A j \in Matchers \ {k} : ~MatchBusy(j)

\* no thread is inside an addOrder call
NoSubBusy == \A p \in Submitters : ~SubBusy(p)

\* whether the scheduler lets a thread step: freely, or only while every
\* other thread is between calls; under "matchers" the matching threads
\* interleave with each other and no addOrder call overlaps a pass
SubMayStep(p) == ~crashed /\ (sched = "free" \/ SubAlone(p))

MatchMayStep(k) ==
    /\ ~crashed
    /\ \/ sched = "free"
       \/ MatchAlone(k)
       \/ sched = "matchers" /\ NoSubBusy

(* --------------------------- memory layout ----------------------------- *)

\* A TickerOrderBook is MAX_ORDERS_PER_SIDE pointers, MAX_ORDERS_PER_SIDE
\* pointers and two 4-byte counters: 2 * MAX_ORDERS_PER_SIDE + 1 words of 8
\* bytes (engine.cpp:47-53), and `tickers` is NUM_TICKERS of them in a row.
BookWords == 2 * MAX_ORDERS_PER_SIDE + 1

BuyAddr(t, i) == t * BookWords + i

SellAddr(t, i) == t * BookWords + MAX_ORDERS_PER_SIDE + i

NoRef == <<>>

\* what the word at address a of `tickers` is: a slot <<ticker, side, index>>,
\* the counters of a book, or memory outside the array
WordAt(a) ==
    IF a >= NUM_TICKERS * BookWords THEN <<"outside">>
    ELSE LET t == a \div BookWords
             off == a % BookWords
         IN IF off < MAX_ORDERS_PER_SIDE THEN <<t, "buyOrders", off>>
            ELSE IF off < 2 * MAX_ORDERS_PER_SIDE
                 THEN <<t, "sellOrders", off - MAX_ORDERS_PER_SIDE>>
                 ELSE <<"counters", t>>

IsSlot(w) == Len(w) = 3

Deref(r) == tickers[r[1]][r[2]][r[3]]

\* the word at a read as an Order*: a slot's pointer, or the two counters
\* read as one pointer (null only when both are 0)
PointsToOrder(w) ==
    IF IsSlot(w) THEN Deref(w).ptr
    ELSE IF w[1] = "counters"
         THEN tickers[w[2]].buyCount + tickers[w[2]].sellCount > 0
         ELSE TRUE

\* what reading the word as an Order* and loading its fields can do: a
\* slot inside the array is read; a pointer that is no Order's address
\* faults, or hits memory that makes the scan pass over it
ReadOutcomes(w) ==
    IF IsSlot(w) \/ ~PointsToOrder(w) THEN {"read"} ELSE {"fault", "skip"}

\* the registry after `order` is stored through the pointer-sized word w
StoreWord(w, order) == [tickers EXCEPT ![w[1]][w[2]][w[3]] = order]

(* ------------------------------ addOrder ------------------------------- *)

SubIdle ==
    [pc |-> "idle", isBuy |-> FALSE, tickerSymbol |-> 0, quantity |-> 0,
     price |-> 0, timestamp |-> U64(0, 0), index |-> 0, call |-> 0]

\* a range check that lets the index NUM_TICKERS through
OutOfRangeAbove(tickerSymbol) == tickerSymbol > NUM_TICKERS

\* engine.cpp:75, the range check
OutOfRange(tickerSymbol) == tickerSymbol >= NUM_TICKERS

\* a draw made only once the ticker is known to be in range
TimestampAfterAccepted(tickerSymbol, timestamp) ==
    IF OutOfRange(tickerSymbol) THEN timestamp ELSE U64Inc(timestamp)

\* engine.cpp:72: globalTimestamp after a call's fetch_add, which comes
\* before the range check and so is the same whatever the ticker
TimestampAfterCall(tickerSymbol, timestamp) == U64Inc(timestamp)

\* a capacity check that lets the index MAX_ORDERS_PER_SIDE through
HasRoomInclusive(index) == index <= MAX_ORDERS_PER_SIDE

\* engine.cpp:81 and 88, the capacity check on the claimed index
HasRoom(index) == index < MAX_ORDERS_PER_SIDE

\* a claim that reads the counter and does not advance it
CountNotAdvanced(count) == count

\* fetch_add(1) on a side counter (atomic<int>, 32 bits, wrapping): the
\* value stored back
CountAfterClaim(count) == IF count = IntMax THEN -IntMax - 1 ELSE count + 1

\* an addOrder step on book t disturbs every pass running on that book
Disturb(t) == [k \in Matchers |-> quiet[k] /\ mt[k].tickerIndex # t]

\* engine.cpp:72-76: draw the timestamp, then reject an out-of-range ticker
addOrder_Draw(p) ==
    /\ SubMayStep(p)
    /\ sub[p].pc = "idle"
    /\ calls < limit
    /\ \E isBuy \in BOOLEAN, tickerSymbol \in symbols,
          quantity \in Qtys, price \in Prices :
          /\ globalTimestamp' = TimestampAfterCall(tickerSymbol, globalTimestamp)
          /\ calls' = calls + 1
          /\ sub' = [sub EXCEPT ![p] =
                IF OutOfRange(tickerSymbol)
                THEN SubIdle
                ELSE [pc |-> "claim", isBuy |-> isBuy,
                      tickerSymbol |-> tickerSymbol, quantity |-> quantity,
                      price |-> price, timestamp |-> globalTimestamp,
                      index |-> 0, call |-> calls + 1]]
    /\ UNCHANGED <<tickers, mt, crashed, trades, quiet, limit, sched, symbols>>

\* engine.cpp:80-81 and 87-88: claim an index with fetch_add, then test it
addOrder_Claim(p) ==
    /\ SubMayStep(p)
    /\ sub[p].pc = "claim"
    /\ LET t == sub[p].tickerSymbol
           c == Counter(sub[p].isBuy)
           index == tickers[t][c]
       IN /\ tickers' = [tickers EXCEPT ![t][c] = CountAfterClaim(index)]
          /\ sub' = [sub EXCEPT ![p] =
                IF HasRoom(index)
                THEN [sub[p] EXCEPT !.pc = "publish", !.index = index]
                ELSE SubIdle]
          /\ quiet' = Disturb(t)
    /\ UNCHANGED <<globalTimestamp, mt, crashed, calls, trades, limit, sched, symbols>>

NewOrder(p) ==
    OrderCtor(sub[p].isBuy, sub[p].tickerSymbol, sub[p].quantity,
              sub[p].price, sub[p].timestamp, sub[p].call)

\* the word buyOrders[index] or sellOrders[index] of book t names
SlotWord(t, isBuy, index) ==
    WordAt(IF isBuy THEN BuyAddr(t, index) ELSE SellAddr(t, index))

\* engine.cpp:82 and 89: construct the Order, then store its pointer; the
\* stores become visible to the other threads in program order.  A store
\* through an index outside the registry's memory ends the process.
addOrder_Publish(p) ==
    /\ SubMayStep(p)
    /\ sub[p].pc = "publish"
    /\ LET t == sub[p].tickerSymbol
           w == SlotWord(t, sub[p].isBuy, sub[p].index)
       IN IF IsSlot(w)
          THEN /\ tickers' = StoreWord(w, NewOrder(p))
               /\ quiet' = Disturb(w[1])
               /\ sub' = [sub EXCEPT ![p] = SubIdle]
               /\ UNCHANGED crashed
          ELSE /\ crashed' = TRUE
               /\ UNCHANGED <<tickers, quiet, sub>>
    /\ UNCHANGED <<globalTimestamp, mt, calls, trades, limit, sched, symbols>>

\* engine.cpp:82 and 89 again: the slot is a plain pointer written with no
\* synchronisation, so the pointer store may become visible before the
\* constructor's stores; until then the Order's memory holds what `new`
\* returned.
addOrder_StoreEarly(p) ==
    /\ SubMayStep(p)
    /\ sub[p].pc = "publish"
    /\ LET t == sub[p].tickerSymbol
           w == SlotWord(t, sub[p].isBuy, sub[p].index)
       IN /\ IsSlot(w)
          /\ \E g \in RawImages : tickers' = StoreWord(w, RawOrder(g[1], g[2]))
          /\ quiet' = Disturb(w[1])
    /\ sub' = [sub EXCEPT ![p].pc = "construct"]
    /\ UNCHANGED <<globalTimestamp, mt, crashed, calls, trades, limit, sched, symbols>>

\* the constructor's stores (engine.cpp:28-32) landing after the pointer
addOrder_Construct(p) ==
    /\ SubMayStep(p)
    /\ sub[p].pc = "construct"
    /\ LET t == sub[p].tickerSymbol
           w == SlotWord(t, sub[p].isBuy, sub[p].index)
       IN /\ tickers' = StoreWord(w, NewOrder(p))
          /\ quiet' = Disturb(w[1])
    /\ sub' = [sub EXCEPT ![p] = SubIdle]
    /\ UNCHANGED <<globalTimestamp, mt, crashed, calls, trades, limit, sched, symbols>>

\* a call whose stores become visible in program order
addOrderInOrder(p) ==
    \/ addOrder_Draw(p)
    \/ addOrder_Claim(p)
    \/ addOrder_Publish(p)

addOrder(p) ==
    \/ addOrderInOrder(p)
    \/ addOrder_StoreEarly(p)
    \/ addOrder_Construct(p)

(* ------------------------ matchOrdersForTicker ------------------------- *)

MatchStart(t) ==
    [pc |-> "snapBuy", tickerIndex |-> t, buyCount |-> 0, sellCount |-> 0,
     i |-> 0, bestBuy |-> NoRef, bestSell |-> NoRef,
     highestBuyPrice |-> HighestBuyInit, lowestSellPrice |-> LowestSellInit,
     buyQty |-> 0, sellQty |-> 0, matchQty |-> 0,
     buyTaken |-> 0, sellTaken |-> 0, passTrades |-> 0]

\* where the scans go after the counters are known or a slot is read
AfterSnapshot(bc, sc) ==
    IF bc > 0 THEN "scanBuy" ELSE IF sc > 0 THEN "scanSell" ELSE "check"

\* engine.cpp:113, the buy scan's test
BetterBuy(o, highestBuyPrice) ==
    o.ptr /\ U32Less(0, o.quantity) /\ o.price > highestBuyPrice

\* engine.cpp:122, the sell scan's test
BetterSell(o, lowestSellPrice) ==
    o.ptr /\ U32Less(0, o.quantity) /\ o.price < lowestSellPrice

\* engine.cpp:129, the loop's exit test
NoMatch(bestBuy, bestSell) ==
    \/ bestBuy = NoRef
    \/ bestSell = NoRef
    \/ Deref(bestBuy).price < Deref(bestSell).price

\* engine.cpp:135
MatchQty(buyQty, sellQty) == IF U32Less(buyQty, sellQty) THEN buyQty ELSE sellQty

\* a fetch_sub that leaves the quantity as it was
FetchSubNothing(quantity, matchQty) == quantity

\* atomic<uint32_t>::fetch_sub: the value stored back
FetchSub(quantity, matchQty) == U32Sub(quantity, matchQty)

\* a fetch_sub that also empties the slot of an order it fills
SetQuantityOrRemove(r, q) ==
    IF q = 0
    THEN [tickers EXCEPT ![r[1]][r[2]][r[3]] = NullOrder]
    ELSE [tickers EXCEPT ![r[1]][r[2]][r[3]].quantity = q]

\* engine.cpp:137-138: the registry after fetch_sub has stored q into the
\* quantity of the order r points to
SetQuantity(r, q) == [tickers EXCEPT ![r[1]][r[2]][r[3]].quantity = q]

\* a report that prints the buy order's price
ReportedPriceOfBuy(bestBuy, bestSell) == Deref(bestBuy).price

\* engine.cpp:141, the price a trade is reported at
ReportedPrice(bestBuy, bestSell) == Deref(bestSell).price

\* a pass starting its snapshot is undisturbed when no Order of its book is
\* visible before its constructor has run
NoneRaw(t) ==
    \A p \in Submitters :
        ~(sub[p].pc = "construct" /\ sub[p].tickerSymbol = t)

\* engine.cpp:102
match_SnapBuy(k) ==
    /\ MatchMayStep(k)
    /\ mt[k].pc = "snapBuy"
    /\ LET t == mt[k].tickerIndex
       IN /\ mt' = [mt EXCEPT ![k] =
                [MatchStart(t) EXCEPT !.pc = "snapSell",
                                      !.buyCount = tickers[t].buyCount,
                                      !.passTrades = mt[k].passTrades]]
          /\ quiet' = [quiet EXCEPT ![k] = NoneRaw(t)]
    /\ UNCHANGED <<globalTimestamp, tickers, sub, crashed, calls, trades, limit, sched, symbols>>

\* engine.cpp:103-108
match_SnapSell(k) ==
    /\ MatchMayStep(k)
    /\ mt[k].pc = "snapSell"
    /\ LET sc == tickers[mt[k].tickerIndex].sellCount
       IN mt' = [mt EXCEPT ![k].sellCount = sc,
                           ![k].pc = AfterSnapshot(mt[k].buyCount, sc)]
    /\ UNCHANGED <<globalTimestamp, tickers, sub, crashed, calls, trades, quiet, limit, sched, symbols>>

\* engine.cpp:111-117, one iteration: buyOrders[i] is read wherever the
\* index falls
match_ScanBuy(k) ==
    /\ MatchMayStep(k)
    /\ mt[k].pc = "scanBuy"
    /\ LET m == mt[k]
           w == WordAt(BuyAddr(m.tickerIndex, m.i))
           next == IF m.i + 1 < m.buyCount THEN "scanBuy"
                   ELSE AfterSnapshot(0, m.sellCount)
           ni == IF m.i + 1 < m.buyCount THEN m.i + 1 ELSE 0
       IN \E outcome \in ReadOutcomes(w) :
            IF outcome = "fault"
            THEN /\ crashed' = TRUE
                 /\ UNCHANGED mt
            ELSE /\ UNCHANGED crashed
                 /\ mt' = [mt EXCEPT ![k] =
                      IF outcome = "read" /\ BetterBuy(Deref(w), m.highestBuyPrice)
                      THEN [m EXCEPT !.pc = next, !.i = ni, !.bestBuy = w,
                                     !.highestBuyPrice = Deref(w).price]
                      ELSE [m EXCEPT !.pc = next, !.i = ni]]
    /\ UNCHANGED <<globalTimestamp, tickers, sub, calls, trades, quiet, limit, sched, symbols>>

\* engine.cpp:120-126, one iteration
match_ScanSell(k) ==
    /\ MatchMayStep(k)
    /\ mt[k].pc = "scanSell"
    /\ LET m == mt[k]
           w == WordAt(SellAddr(m.tickerIndex, m.i))
           next == IF m.i + 1 < m.sellCount THEN "scanSell" ELSE "check"
           ni == IF m.i + 1 < m.sellCount THEN m.i + 1 ELSE 0
       IN \E outcome \in ReadOutcomes(w) :
            IF outcome = "fault"
            THEN /\ crashed' = TRUE
                 /\ UNCHANGED mt
            ELSE /\ UNCHANGED crashed
                 /\ mt' = [mt EXCEPT ![k] =
                      IF outcome = "read" /\ BetterSell(Deref(w), m.lowestSellPrice)
                      THEN [m EXCEPT !.pc = next, !.i = ni, !.bestSell = w,
                                     !.lowestSellPrice = Deref(w).price]
                      ELSE [m EXCEPT !.pc = next, !.i = ni]]
    /\ UNCHANGED <<globalTimestamp, tickers, sub, calls, trades, quiet, limit, sched, symbols>>

\* engine.cpp:129-130: leave the loop, or go on to trade
match_Check(k) ==
    /\ MatchMayStep(k)
    /\ mt[k].pc = "check"
    /\ IF NoMatch(mt[k].bestBuy, mt[k].bestSell)
       THEN mt' = [mt EXCEPT ![k].pc = "returned"]
       ELSE /\ Len(trades) < MaxTrades
            /\ mt' = [mt EXCEPT ![k].pc = "loadBuyQty"]
    /\ UNCHANGED <<globalTimestamp, tickers, sub, crashed, calls, trades, quiet, limit, sched, symbols>>

\* engine.cpp:133
match_LoadBuyQty(k) ==
    /\ MatchMayStep(k)
    /\ mt[k].pc = "loadBuyQty"
    /\ mt' = [mt EXCEPT ![k].buyQty = Deref(mt[k].bestBuy).quantity,
                        ![k].pc = "loadSellQty"]
    /\ UNCHANGED <<globalTimestamp, tickers, sub, crashed, calls, trades, quiet, limit, sched, symbols>>

\* engine.cpp:134-135
match_LoadSellQty(k) ==
    /\ MatchMayStep(k)
    /\ mt[k].pc = "loadSellQty"
    /\ LET sellQty == Deref(mt[k].bestSell).quantity
       IN mt' = [mt EXCEPT ![k].sellQty = sellQty,
                           ![k].matchQty = MatchQty(mt[k].buyQty, sellQty),
                           ![k].pc = "subBuy"]
    /\ UNCHANGED <<globalTimestamp, tickers, sub, crashed, calls, trades, quiet, limit, sched, symbols>>

\* engine.cpp:137
match_SubBuy(k) ==
    /\ MatchMayStep(k)
    /\ mt[k].pc = "subBuy"
    /\ LET r == mt[k].bestBuy
           q == FetchSub(Deref(r).quantity, mt[k].matchQty)
       IN /\ tickers' = SetQuantity(r, q)
          /\ mt' = [mt EXCEPT ![k].pc = "subSell",
                              ![k].buyTaken = Deref(r).quantity - q]
    /\ UNCHANGED <<globalTimestamp, sub, crashed, calls, trades, quiet, limit, sched, symbols>>

\* engine.cpp:138
match_SubSell(k) ==
    /\ MatchMayStep(k)
    /\ mt[k].pc = "subSell"
    /\ LET r == mt[k].bestSell
           q == FetchSub(Deref(r).quantity, mt[k].matchQty)
       IN /\ tickers' = SetQuantity(r, q)
          /\ mt' = [mt EXCEPT ![k].pc = "report",
                              ![k].sellTaken = Deref(r).quantity - q]
    /\ UNCHANGED <<globalTimestamp, sub, crashed, calls, trades, quiet, limit, sched, symbols>>

\* engine.cpp:140-141: the line written to cout (with, for the record, the
\* two orders traded, the quantities loaded from them, what each fetch_sub
\* took, which trade of its pass it is and which thread made it), then the
\* loop repeats
match_Report(k) ==
    /\ MatchMayStep(k)
    /\ mt[k].pc = "report"
    /\ trades' = Append(trades,
          [ticker |-> mt[k].tickerIndex, qty |-> mt[k].matchQty,
           price |-> ReportedPrice(mt[k].bestBuy, mt[k].bestSell),
           buy |-> mt[k].bestBuy, sell |-> mt[k].bestSell,
           buyQty |-> mt[k].buyQty, sellQty |-> mt[k].sellQty,
           buyTaken |-> mt[k].buyTaken, sellTaken |-> mt[k].sellTaken,
           nth |-> mt[k].passTrades + 1, by |-> k])
    /\ mt' = [mt EXCEPT ![k].pc = "snapBuy",
                        ![k].passTrades = mt[k].passTrades + 1]
    /\ UNCHANGED <<globalTimestamp, tickers, sub, crashed, calls, quiet, limit, sched, symbols>>

matchOrdersForTicker(k) ==
    \/ match_SnapBuy(k)
    \/ match_SnapSell(k)
    \/ match_ScanBuy(k)
    \/ match_ScanSell(k)
    \/ match_Check(k)
    \/ match_LoadBuyQty(k)
    \/ match_LoadSellQty(k)
    \/ match_SubBuy(k)
    \/ match_SubSell(k)
    \/ match_Report(k)

\* engine.cpp:150-154 and 182-187: the first ticker, after a pass returns
\* the next ticker, and after the last ticker the first again
matchOrder(k) ==
    /\ MatchMayStep(k)
    /\ mt[k].pc \in {"start", "returned"}
    /\ mt' = [mt EXCEPT ![k] =
          IF mt[k].pc = "start" THEN MatchStart(0)
          ELSE MatchStart((mt[k].tickerIndex + 1) % NUM_TICKERS)]
    /\ UNCHANGED <<globalTimestamp, tickers, sub, crashed, calls, trades, quiet, limit, sched, symbols>>

(* --------------------------- specifications ---------------------------- *)

SubOff == [SubIdle EXCEPT !.pc = "off"]

MatchOff == [MatchStart(0) EXCEPT !.pc = "off"]

MatchEntry == [MatchStart(0) EXCEPT !.pc = "start"]

\* the registry as constructed (engine.cpp:15, 62)
InitRegistry ==
    /\ tickers = [t \in Tickers |-> TickerOrderBookCtor]
    /\ crashed = FALSE
    /\ calls = 0
    /\ trades = <<>>
    /\ quiet = [k \in Matchers |-> FALSE]

\* main (engine.cpp:194-197): one thread in simulateOrders, one in
\* simulateMatching
InitThreads ==
    /\ InitRegistry
    /\ globalTimestamp = TimestampZero
    /\ sub = [p \in Submitters |-> IF p = 1 THEN SubIdle ELSE SubOff]
    /\ mt = [k \in Matchers |-> IF k = 1 THEN MatchEntry ELSE MatchOff]

\* the two threads interleaved at every shared access
Init ==
    /\ InitThreads
    /\ limit = RaceCalls
    /\ sched = "free"
    /\ symbols = FirstAndPastEnd

Next ==
    \/ \E p \in Submitters : addOrder(p)
    \/ \E k \in Matchers : matchOrdersForTicker(k)
    \/ \E k \in Matchers : matchOrder(k)

Spec == Init /\ [][Next]_vars

\* the same two threads scheduled so that a call of addOrder and a pass of
\* matchOrdersForTicker never overlap
InitSeq ==
    /\ InitThreads
    /\ limit = MaxCalls
    /\ sched = "serial"
    /\ symbols = FirstAndPastEnd

SpecSeq == InitSeq /\ [][Next]_vars

\* addOrder called by two threads at once, no matching
InitAdd ==
    /\ InitRegistry
    /\ globalTimestamp \in StartTimestamps
    /\ sub = [p \in Submitters |-> SubIdle]
    /\ mt = [k \in Matchers |-> MatchOff]
    /\ limit = RaceCalls
    /\ sched = "free"
    /\ symbols = FirstAndPastEnd

NextAdd == \E p \in Submitters : addOrder(p)

SpecAdd == InitAdd /\ [][NextAdd]_vars

\* one thread in simulateOrders and one or two threads in simulateMatching,
\* the matching threads interleaved at every shared access
InitTwo ==
    /\ InitRegistry
    /\ globalTimestamp = TimestampZero
    /\ sub = [p \in Submitters |-> IF p = 1 THEN SubIdle ELSE SubOff]
    /\ mt \in {[k \in Matchers |-> IF k = 1 THEN MatchEntry ELSE m] :
                 m \in {MatchOff, MatchEntry}}
    /\ limit = PairCalls
    /\ sched = "matchers"
    /\ symbols = FirstAndPastEnd

SpecTwo == InitTwo /\ [][Next]_vars

\* the two threads of main, a call of addOrder and a pass of
\* matchOrdersForTicker never overlapping, orders going to every ticker
InitBooks ==
    /\ InitThreads
    /\ limit = RaceCalls
    /\ sched = "serial"
    /\ symbols = TickerSymbols

SpecBooks == InitBooks /\ [][Next]_vars

\* the two threads of main for as long as stopSimulation stays false
\* (engine.cpp:168, 183): each thread that can take a step eventually does
InitLive ==
    /\ InitThreads
    /\ limit = PairCalls
    /\ sched = "serial"
    /\ symbols = FirstAndPastEnd

Fairness ==
    /\ WF_vars(\E p \in Submitters : addOrder(p))
    /\ WF_vars(\E k \in Matchers : matchOrdersForTicker(k) \/ matchOrder(k))

SpecLive == InitLive /\ [][Next]_vars /\ Fairness

(* ------------------------------- claims -------------------------------- *)

\* an order the scans may select: published, with quantity > 0
Eligible(o) == o.ptr /\ U32Less(0, o.quantity)

\* book t holds an eligible buy and an eligible sell with buy.price >= sell.price
Crossed(t) ==
    \E i, j \in SlotIdx :
        LET b == tickers[t].buyOrders[i]
            s == tickers[t].sellOrders[j]
        IN Eligible(b) /\ Eligible(s) /\ b.price >= s.price

\* C1: when a pass of matchOrdersForTicker has returned and no addOrder step
\* touched its book since the pass's last snapshot began, the book holds no
\* eligible buy and eligible sell with buy.price >= sell.price, whatever
\* prices the orders carry.
C1_NoCrossAfterPass ==
    \A k \in Matchers :
        (mt[k].pc = "returned" /\ quiet[k]) => ~Crossed(mt[k].tickerIndex)

Sides == {"buyOrders", "sellOrders"}

\* C2: from one state to the next the remaining quantity of every
\* constructed order, read as the uint32_t it is, never grows; a fetch_sub
\* that took more than was left would wrap it to a larger value.
C2_QuantityNeverGrows ==
    [][\A t \in Tickers, s \in Sides, i \in SlotIdx :
          (tickers[t][s][i].built /\ tickers'[t][s][i].built)
              => ~U32Less(tickers[t][s][i].quantity, tickers'[t][s][i].quantity)]_vars

RECURSIVE SumOver(_, _, _)
\* the sum of F(trades[n]) over the trades 1..n
SumOver(F(_), seq, n) == IF n = 0 THEN 0 ELSE F(seq[n]) + SumOver(F, seq, n - 1)

\* what the trades of ticker t took from the orders of one side of its book
RemovedFrom(t, side) ==
    LET Took(tr) ==
          (IF tr.ticker = t /\ tr.buy[1] = t /\ tr.buy[2] = side THEN tr.buyTaken ELSE 0)
          + (IF tr.ticker = t /\ tr.sell[1] = t /\ tr.sell[2] = side THEN tr.sellTaken ELSE 0)
    IN SumOver(Took, trades, Len(trades))

\* the quantities reported for ticker t
Reported(t) ==
    LET Qty(tr) == IF tr.ticker = t THEN tr.qty ELSE 0
    IN SumOver(Qty, trades, Len(trades))

\* C3: every trade takes its reported quantity, the smaller of the two
\* quantities loaded, from each of its two orders; and what the trades of
\* a ticker took from the buy side of its book equals what they took from
\* its sell side equals the sum of the quantities reported for it.
C3_Conservation ==
    /\ \A n \in 1 .. Len(trades) :
          /\ trades[n].buyTaken = trades[n].qty
          /\ trades[n].sellTaken = trades[n].qty
          /\ trades[n].qty \in {trades[n].buyQty, trades[n].sellQty}
          /\ ~U32Less(trades[n].buyQty, trades[n].qty)
          /\ ~U32Less(trades[n].sellQty, trades[n].qty)
    /\ \A t \in Tickers :
          /\ RemovedFrom(t, "buyOrders") = Reported(t)
          /\ RemovedFrom(t, "sellOrders") = Reported(t)

\* the slots whose order's quantity a step changes
QuantityChanged ==
    {w \in Tickers \X Sides \X SlotIdx :
        tickers'[w[1]][w[2]][w[3]].quantity # tickers[w[1]][w[2]][w[3]].quantity}

\* C4: the second fetch_sub of a trade changes the quantity of no order but
\* the one bestSell points to, and the line then written reports the price
\* that order holds, whatever the price of the order bestBuy points to.
C4_ExecutionPrice ==
    [][\A k \in Matchers :
          /\ (mt[k].pc = "subSell" /\ mt'[k].pc = "report")
                => QuantityChanged \subseteq {mt[k].bestSell}
          /\ (mt[k].pc = "report" /\ mt'[k].pc = "snapBuy")
                => /\ trades' = Append(trades, trades'[Len(trades')])
                   /\ trades'[Len(trades')].sell = mt[k].bestSell
                   /\ trades'[Len(trades')].price
                        = tickers[mt[k].bestSell[1]][mt[k].bestSell[2]][mt[k].bestSell[3]].price]_vars

\* a trade between a buy order and a sell order of different prices has
\* been reported
C4_Witness ==
    \E n \in 1 .. Len(trades) :
        /\ trades[n].buy[2] = "buyOrders"
        /\ Deref(trades[n].buy).built /\ Deref(trades[n].sell).built
        /\ Deref(trades[n].buy).price # Deref(trades[n].sell).price
        /\ trades[n].price = Deref(trades[n].sell).price

\* the slots of the registry
Slots == Tickers \X Sides \X SlotIdx

\* C5: of two orders stored in the registry, the one whose addOrder call
\* drew its timestamp later holds the strictly larger timestamp; so no two
\* orders hold the same one, however many calls have been made before.
C5_SequenceUnique ==
    \A a, b \in Slots :
        (Deref(a).built /\ Deref(b).built /\ Deref(a).call < Deref(b).call)
            => U64Less(Deref(a).timestamp, Deref(b).timestamp)

\* a call that has claimed an index and not yet returned
InFlight(p) == sub[p].pc \in {"publish", "construct"}

\* the side of a book a call adds to
SideOf(isBuy) == IF isBuy THEN "buyOrders" ELSE "sellOrders"

\* C6: a call that claims an index below MAX_ORDERS_PER_SIDE (one of the
\* first MAX_ORDERS_PER_SIDE to claim on its side, the counter advancing by
\* one per claim) goes on to publish its order in the slot of that index;
\* a call that claims a larger index returns at once having stored nothing;
\* and no step of addOrder changes a slot that holds a constructed order.
C6_CapacityBoundary ==
    [][/\ \A p \in Submitters :
            (sub[p].pc = "claim" /\ sub'[p] # sub[p]) =>
                LET t == sub[p].tickerSymbol
                    index == tickers[t][Counter(sub[p].isBuy)]
                IN /\ tickers'[t][Counter(sub[p].isBuy)] = index + 1
                   /\ \A w \in Slots : tickers'[w[1]][w[2]][w[3]] = Deref(w)
                   /\ IF index < MAX_ORDERS_PER_SIDE
                      THEN sub'[p].pc = "publish" /\ sub'[p].index = index
                      ELSE sub'[p].pc = "idle"
       /\ \A p \in Submitters :
            (InFlight(p) /\ sub'[p].pc = "idle") =>
                /\ sub[p].index \in SlotIdx
                /\ tickers'[sub[p].tickerSymbol][SideOf(sub[p].isBuy)][sub[p].index]
                     = NewOrder(p)
       /\ \A w \in Slots :
            Deref(w).built => tickers'[w[1]][w[2]][w[3]] = Deref(w)]_vars

\* one more call than a side holds has claimed on the buy side of a book
\* and returned, and the side's slots hold constructed orders
C6_Witness ==
    \E t \in Tickers :
        /\ tickers[t].buyCount > MAX_ORDERS_PER_SIDE
        /\ \A i \in SlotIdx : tickers[t].buyOrders[i].built
        /\ \A p \in Submitters : sub[p].pc = "idle"

\* C7: a scan of matchOrdersForTicker reads only slot indices below
\* MAX_ORDERS_PER_SIDE, and every order a pass selects or a trade decrements
\* is stored in a slot of its own side of the pass's book.
C7_ScanWithinCapacity ==
    /\ \A k \in Matchers :
          /\ mt[k].pc \in {"scanBuy", "scanSell"} => mt[k].i < MAX_ORDERS_PER_SIDE
          /\ mt[k].bestBuy # NoRef
                => mt[k].bestBuy[1] = mt[k].tickerIndex /\ mt[k].bestBuy[2] = "buyOrders"
          /\ mt[k].bestSell # NoRef
                => mt[k].bestSell[1] = mt[k].tickerIndex /\ mt[k].bestSell[2] = "sellOrders"
    /\ \A n \in 1 .. Len(trades) :
          /\ trades[n].buy[1] = trades[n].ticker /\ trades[n].buy[2] = "buyOrders"
          /\ trades[n].sell[1] = trades[n].ticker /\ trades[n].sell[2] = "sellOrders"

\* C8: the step that draws a call's timestamp changes no book and writes no
\* trade, and a call goes past that step only with a ticker index below
\* NUM_TICKERS: a call with a larger index returns from it, the registry
\* and the trades as they were.
C8_OutOfRangeNoOp ==
    [][/\ calls' # calls => tickers' = tickers /\ trades' = trades
       /\ \A p \in Submitters :
            sub'[p].pc \notin {"idle", "off"} => sub'[p].tickerSymbol < NUM_TICKERS]_vars

\* calls have been made and have returned, and no counter has moved: every
\* one of them was turned away by the range check
C8_Witness ==
    /\ calls > 0
    /\ \A p \in Submitters : sub[p].pc \in {"idle", "off"}
    /\ \A t \in Tickers : tickers[t].buyCount = 0 /\ tickers[t].sellCount = 0

\* the slot a call in flight has claimed
Claimed(p) == <<sub[p].tickerSymbol, SideOf(sub[p].isBuy), sub[p].index>>

\* C9: no two calls in flight hold the same index of the same side of the
\* same book; the slot a call is about to publish into holds no order yet,
\* so publishing overwrites none; and every order published occupies one
\* slot only.
C9_SlotUniqueness ==
    /\ \A p, q \in Submitters :
          (p # q /\ InFlight(p) /\ InFlight(q)) => Claimed(p) # Claimed(q)
    /\ \A p \in Submitters :
          /\ InFlight(p) => sub[p].index \in SlotIdx
          /\ sub[p].pc = "publish" => ~Deref(Claimed(p)).ptr
          /\ sub[p].pc = "construct" => ~Deref(Claimed(p)).built
    /\ \A a, b \in Slots :
          (a # b /\ Deref(a).built /\ Deref(b).built) => Deref(a).call # Deref(b).call

\* two calls are in flight on the same side of the same book at once
C9_Witness ==
    \E p, q \in Submitters :
        /\ p # q
        /\ sub[p].pc = "publish" /\ sub[q].pc = "publish"
        /\ sub[p].tickerSymbol = sub[q].tickerSymbol
        /\ sub[p].isBuy = sub[q].isBuy
        /\ sub[p].index # sub[q].index

\* C10: in every state, for every book, buyCount and sellCount are at most
\* MAX_ORDERS_PER_SIDE.
C10_CounterBound ==
    \A t \in Tickers :
        /\ tickers[t].buyCount <= MAX_ORDERS_PER_SIDE
        /\ tickers[t].sellCount <= MAX_ORDERS_PER_SIDE

\* the indices of the eligible orders of one side of book t
EligibleIn(t, side) == {i \in SlotIdx : Eligible(tickers[t][side][i])}

\* the eligible buy of book t with the highest price, the lowest index
\* among equals; NoRef when the side has no eligible order
HighestBuy(t) ==
    LET E == EligibleIn(t, "buyOrders")
        P(i) == tickers[t].buyOrders[i].price
    IN IF E = {} THEN NoRef
       ELSE <<t, "buyOrders",
              CHOOSE i \in E : \A j \in E : P(i) > P(j) \/ (P(i) = P(j) /\ i <= j)>>

\* the eligible sell of book t with the lowest price, the lowest index
\* among equals; NoRef when the side has no eligible order
LowestSell(t) ==
    LET E == EligibleIn(t, "sellOrders")
        P(i) == tickers[t].sellOrders[i].price
    IN IF E = {} THEN NoRef
       ELSE <<t, "sellOrders",
              CHOOSE i \in E : \A j \in E : P(i) < P(j) \/ (P(i) = P(j) /\ i <= j)>>

\* of two consecutive trades of one pass the later one reports a price no
\* lower and is with a buy order priced no higher than the earlier one
TradesInPriceOrder ==
    \A n \in 2 .. Len(trades) :
        trades[n].nth > 1 =>
            /\ trades[n].price >= trades[n - 1].price
            /\ Deref(trades[n].buy).price <= Deref(trades[n - 1].buy).price

\* C11: in a pass of matchOrdersForTicker run with no addOrder call
\* overlapping it, consecutive trades report non-decreasing prices and are
\* with buy orders of non-increasing prices, and each iteration that trades
\* does so between the highest-priced eligible buy and the lowest-priced
\* eligible sell the book then holds.
C11_TradeOrder ==
    /\ TradesInPriceOrder
    /\ \A k \in Matchers :
          mt[k].pc = "loadBuyQty" =>
              /\ mt[k].bestBuy = HighestBuy(mt[k].tickerIndex)
              /\ mt[k].bestSell = LowestSell(mt[k].tickerIndex)

\* C12: every trade of a pass is of a quantity above zero and leaves at
\* least one of its two orders with quantity 0 (so each trade retires an
\* order and the pass runs out of orders to trade).
C12_TradeRetiresAnOrder ==
    \A k \in Matchers :
        mt[k].pc = "report" =>
            /\ U32Less(0, mt[k].matchQty)
            /\ \/ Deref(mt[k].bestBuy).quantity = 0
               \/ Deref(mt[k].bestSell).quantity = 0

\* C13: when the two scans of an iteration are done, no addOrder call
\* having overlapped them, bestBuy is the eligible buy of the highest
\* price, of the lowest index among equals, and bestSell the eligible sell
\* of the lowest price, of the lowest index among equals; each is selected
\* whenever its side holds an eligible order.
C13_BestSelection ==
    \A k \in Matchers :
        mt[k].pc = "check" =>
            /\ mt[k].bestBuy = HighestBuy(mt[k].tickerIndex)
            /\ mt[k].bestSell = LowestSell(mt[k].tickerIndex)

\* the price of the order a slot holds
PriceAt(r) == Deref(r).price

\* C14: every trade is between a buy order and a sell order of the trade's
\* ticker, the buy priced no lower than the sell, both with quantity above
\* zero when loaded; and a pass, run with no addOrder call overlapping it,
\* goes on to trade only when the book holds an eligible buy and an
\* eligible sell with the best buy price no lower than the best sell price.
C14_TradeOnlyOnCross ==
    /\ \A n \in 1 .. Len(trades) :
          LET b == Deref(trades[n].buy)
              s == Deref(trades[n].sell)
          IN /\ b.isBuy /\ ~s.isBuy
             /\ b.tickerIndex = trades[n].ticker /\ s.tickerIndex = trades[n].ticker
             /\ b.price >= s.price
             /\ U32Less(0, trades[n].buyQty) /\ U32Less(0, trades[n].sellQty)
    /\ \A k \in Matchers :
          mt[k].pc = "loadBuyQty" =>
              LET t == mt[k].tickerIndex
              IN /\ HighestBuy(t) # NoRef /\ LowestSell(t) # NoRef
                 /\ PriceAt(HighestBuy(t)) >= PriceAt(LowestSell(t))

\* two trades report the same pair of a buy order and a sell order with the
\* same two quantities loaded and the same quantity matched
SamePairTwice ==
    \E n, m \in 1 .. Len(trades) :
        /\ n < m
        /\ trades[n].buy[2] = "buyOrders" /\ trades[n].sell[2] = "sellOrders"
        /\ trades[n].buy = trades[m].buy /\ trades[n].sell = trades[m].sell
        /\ trades[n].buyQty = trades[m].buyQty /\ trades[n].sellQty = trades[m].sellQty
        /\ trades[n].qty = trades[m].qty

C16_OnlyConstructedSelected ==
    \A k \in Matchers :
        /\ mt[k].bestBuy # NoRef => Deref(mt[k].bestBuy).built
        /\ mt[k].bestSell # NoRef => Deref(mt[k].bestSell).built

\* C17: on each side of each book, of two slots that both hold a
\* constructed order the one of the lower index holds the smaller
\* timestamp.
C17_SideInSequenceOrder ==
    \A t \in Tickers, s \in Sides, i, j \in SlotIdx :
        (i < j /\ tickers[t][s][i].built /\ tickers[t][s][j].built)
            => U64Less(tickers[t][s][i].timestamp, tickers[t][s][j].timestamp)

\* C18: a step of a thread in matchOrder or matchOrdersForTicker leaves
\* globalTimestamp, every counter and, of every slot, everything but the
\* quantity of the order it holds as they were (an order filled to quantity
\* 0 stays in its slot), and leaves the slots of every book other than the
\* one the pass is on entirely as they were.
C18_MatchingFrame ==
    [][\A k \in Matchers :
          mt'[k] # mt[k] =>
              /\ globalTimestamp' = globalTimestamp
              /\ \A t \in Tickers :
                    /\ tickers'[t].buyCount = tickers[t].buyCount
                    /\ tickers'[t].sellCount = tickers[t].sellCount
              /\ \A w \in Slots :
                    /\ tickers'[w[1]][w[2]][w[3]]
                         = [Deref(w) EXCEPT !.quantity = tickers'[w[1]][w[2]][w[3]].quantity]
                    /\ w[1] # mt[k].tickerIndex => tickers'[w[1]][w[2]][w[3]] = Deref(w)]_vars

\* a trade has filled an order, which is still in its slot with quantity 0,
\* while another book holds an order with its quantity as submitted
C18_Witness ==
    \E n \in 1 .. Len(trades) :
        /\ \/ Deref(trades[n].buy).built /\ Deref(trades[n].buy).quantity = 0
           \/ Deref(trades[n].sell).built /\ Deref(trades[n].sell).quantity = 0
        /\ \E w \in Slots :
              /\ w[1] # trades[n].ticker
              /\ Deref(w).built /\ Deref(w).quantity > 0

\* C19: globalTimestamp, started at 0, is the number of addOrder calls made
\* so far, whether they were rejected for their ticker, dropped for want of
\* room or accepted.
C19_CounterCountsCalls == globalTimestamp = U64(0, calls)

\* every call has returned, and two orders stored hold timestamps 0 and 2
\* while no order stored holds timestamp 1: the call that drew it was
\* rejected or dropped
C19_Witness ==
    /\ \A p \in Submitters : sub[p].pc \in {"idle", "off"}
    /\ \E a, b \in Slots :
          /\ Deref(a).built /\ Deref(a).timestamp = U64(0, 0)
          /\ Deref(b).built /\ Deref(b).timestamp = U64(0, 2)
    /\ \A w \in Slots : Deref(w).built => Deref(w).timestamp # U64(0, 1)

\* the buy in slot i and the sell in slot j of book t are constructed, both
\* with quantity above zero, the buy priced no lower than the sell
CrossedPair(t, i, j) ==
    LET b == tickers[t].buyOrders[i]
        s == tickers[t].sellOrders[j]
    IN /\ b.built /\ s.built
       /\ U32Less(0, b.quantity) /\ U32Less(0, s.quantity)
       /\ b.price >= s.price

\* C20: with the threads scheduled fairly and shutdown never signalled, a
\* published buy and a published sell of one book, both with quantity above
\* zero and the buy priced no lower than the sell, lead to a state in which
\* one of the two has quantity 0.
C20_EventualMatching ==
    \A t \in Tickers, i, j \in SlotIdx :
        CrossedPair(t, i, j)
            ~> (tickers[t].buyOrders[i].quantity = 0 \/ tickers[t].sellOrders[j].quantity = 0)

=============================================================================
